---------------------------- MODULE Spec2Model ----------------------------
(***************************************************************************)
(* The text relay of one-api: controller.relayTextHelper (request          *)
(* validation, model remapping, quota pre-consumption, upstream dispatch,  *)
(* buffered and streamed responses, deferred settlement) together with     *)
(* the token counting helpers of controller/relay-utils.go.                *)
(*                                                                         *)
(* Strings are sequences of symbols, so that HasPrefix, Contains, slicing  *)
(* and TrimSuffix are computed and not assumed.  A text handed to the      *)
(* token encoder is the sequence of its tokens.  Floating point ratios are *)
(* exact rationals [n, d]; int(float64(x) * r) truncates toward zero.      *)
(***************************************************************************)
EXTENDS Integers, Sequences, FiniteSets, TLC

(***************************************************************************)
(* Bounds of the model.                                                    *)
(***************************************************************************)
\* Upstream lines (OpenAI) or events (Claude) one streamed response carries
\* in the specification of the stream pump.
MaxFrames == 3

(***************************************************************************)
(* Strings.                                                                *)
(***************************************************************************)
HasPrefix(s, p) == Len(p) <= Len(s) /\ SubSeq(s, 1, Len(p)) = p

Contains(s, sub) ==
    \E i \in 1..(Len(s) + 1) :
        i + Len(sub) - 1 <= Len(s) /\ SubSeq(s, i, i + Len(sub) - 1) = sub

\* The two characters of the free-channel marker tested at lines 145 and 241.
FreeMarker == <<"mian", "fei">>

\* Variant: the marker is looked for at the start of the name only.
IsFreeChannelByPrefix(channelName) == HasPrefix(channelName, FreeMarker)

IsFreeChannel(channelName) == Contains(channelName, FreeMarker)

ChannelNames == { <<"mian", "-", "fei">>, <<"x", "-", "mian", "fei">> }

\* Model names, cut where the prefixes tested by the code end.
NoModel == <<>>
Gpt35 == <<"gpt-", "3.5", "-turbo">>
Gpt4 == <<"gpt-", "4">>
Gpt432k == <<"gpt-", "4", "-32k">>
Claude2 == <<"claude", "-2">>
ModerationLatest == <<"text-", "moderation-latest">>

PrefixGpt35 == <<"gpt-", "3.5">>
PrefixGpt4 == <<"gpt-", "4">>
PrefixClaude == <<"claude">>

(***************************************************************************)
(* Rationals and the float-to-int conversion.                              *)
(***************************************************************************)
TruncDiv(a, b) == IF a >= 0 THEN a \div b ELSE -((-a) \div b)

Rat(n, d) == [n |-> n, d |-> d]

RatMul(r, s) == Rat(r.n * s.n, r.d * s.d)

\* int(float64(x) * r)
IntOfProduct(x, r) == TruncDiv(x * r.n, r.d)

\* floor(x * r), the exact mathematical value
FloorOfProduct(x, r) == (x * r.n) \div r.d

(***************************************************************************)
(* Token counting (controller/relay-utils.go).                             *)
(***************************************************************************)
countTokenText(text) == Len(text)

RECURSIVE countTokenMessagesFrom(_, _)
countTokenMessagesFrom(messages, i) ==
    IF i > Len(messages) THEN 0
    ELSE 3 + countTokenText(messages[i].Content) + countTokenText(messages[i].Role)
           + countTokenMessagesFrom(messages, i + 1)

countTokenMessages(messages) == countTokenMessagesFrom(messages, 1) + 3

\* A value of Go type any: nil, a string, or a JSON array.
NilVal == [k |-> "nil", v |-> <<>>]
StringVal(text) == [k |-> "string", v |-> text]
ArrayVal(text) == [k |-> "array", v |-> text]

\* input == "" on a value of type any
IsEmptyString(a) == a.k = "string" /\ a.v = <<>>

\* json.Unmarshal stores an array as []interface{}, which is neither case of
\* the type switch.
countTokenInput(input) == IF input.k = "string" THEN countTokenText(input.v) ELSE 0


(***************************************************************************)
(* Request data.                                                           *)
(***************************************************************************)
RelayModes == {"ChatCompletions", "Completions", "Embeddings", "Moderations", "Edits"}

\* common.ChannelTypeAzure and common.ChannelTypePaLM are the two channel
\* types the helper tells apart; "OpenAI" stands for every other type.
ChannelTypes == {"OpenAI", "Azure", "PaLM"}

\* The zero value of GeneralOpenAIRequest (var textRequest, line 31).
ZeroRequest ==
    [Model |-> NoModel, Messages |-> <<>>, Prompt |-> NilVal, MaxTokens |-> 0,
     Input |-> NilVal, Instruction |-> <<>>]

UserMessage == [Role |-> <<"user">>, Content |-> <<"hi">>]

\* Bodies a caller may send: no content field at all, every content field
\* present and non-empty, every content field present and empty.
BodyModels == {NoModel, Gpt35, Gpt4, Claude2}

MaxTokensValues == {0, 2, -30}

ContentNone(m, mt) == [ZeroRequest EXCEPT !.Model = m, !.MaxTokens = mt]

ContentFull(m, mt) ==
    [Model |-> m, Messages |-> <<UserMessage>>, Prompt |-> StringVal(<<"a", "b">>),
     MaxTokens |-> mt, Input |-> StringVal(<<"a">>), Instruction |-> <<"fix">>]

ContentBlank(m, mt) ==
    [Model |-> m, Messages |-> <<>>, Prompt |-> StringVal(<<>>),
     MaxTokens |-> mt, Input |-> StringVal(<<>>), Instruction |-> <<>>]

RawBodies ==
    {[wellFormed |-> FALSE, req |-> ZeroRequest]}
    \cup {[wellFormed |-> TRUE, req |-> ContentFull(m, mt)] :
            <<m, mt>> \in BodyModels \X MaxTokensValues}
    \cup {[wellFormed |-> TRUE, req |-> r] :
            r \in UNION {{ContentNone(m, 0), ContentBlank(m, 0)} : m \in BodyModels}}

\* c.GetString("model_mapping"): empty, not JSON, or a JSON object.
NoMapping == [k |-> "empty", pairs |-> {}]
BadMapping == [k |-> "invalid", pairs |-> {}]
SomeMapping == [k |-> "json", pairs |-> {<<Gpt4, Gpt432k>>, <<Gpt35, Claude2>>}]

ModelMappings == {NoMapping, BadMapping, SomeMapping}

\* c.Param("model"), read at line 42
ParamModels == {NoModel, Gpt35}

\* modelMap[key], "" when the key is absent
MapGet(pairs, key) ==
    IF \E p \in pairs : p[1] = key
    THEN (CHOOSE p \in pairs : p[1] = key)[2]
    ELSE NoModel

Contexts ==
    [consumeQuota : BOOLEAN, channelType : ChannelTypes, channelName : ChannelNames,
     relayMode : RelayModes]

\* Values of the pricing tables (model ratio, group ratio) and of the quota
\* cache.  A cached quota is a remaining balance and is not negative.
Pricings == {<<Rat(0, 1), Rat(1, 1)>>, <<Rat(1, 2), Rat(1, 2)>>, <<Rat(3, 2), Rat(1, 1)>>}
UserQuotas == {0, 100}

\* common.PreConsumedQuota, read at line 128; 500 is the package default.
PreConsumedQuota == 500

(***************************************************************************)
(* State.                                                                  *)
(***************************************************************************)
VARIABLES
    pc,                \* position of the request task in relayTextHelper
    ctx,               \* the request context (lines 25-30)
    rawBody,           \* the caller's body
    textRequest,       \* var textRequest GeneralOpenAIRequest
    isModelMapped,
    apiType,
    promptTokens,
    completionTokens,
    modelRatio,
    groupRatio,
    preConsumedQuota,
    userQuota,
    requestBody,       \* the body handed to http.NewRequest
    isStream,
    deferRegistered,   \* the defer statement of line 211 was executed
    textResponse,      \* textResponse.Usage
    settlement,        \* what the deferred function computed
    result,            \* the value relayTextHelper returned
    calls,             \* calls made to the quota store and to the upstream
    upstream,          \* lines or events the scanner has produced so far
    upstreamEnded,     \* scanner.Scan() has returned false
    prodPc,            \* position of the producer goroutine
    prodData,          \* the producer's variable data
    streamResponseText,
    downstream,        \* frames rendered to the client
    clientGone,        \* the client has closed the connection
    responseStamp,     \* responseId and createdTime of a Claude stream
    bodyCloses,        \* Close calls on c.Request.Body and on the upstream body
    tokenEncoderMap,   \* var tokenEncoderMap, shared by every request
    encodersBuilt,     \* the model each constructed encoder was built for
    callers,           \* concurrent calls of getTokenEncoder
    mapFault           \* the runtime has stopped the process on a map race

ctxVars == <<ctx, rawBody>>
planVars == <<textRequest, isModelMapped, apiType>>
quotaVars == <<promptTokens, modelRatio, groupRatio, preConsumedQuota, userQuota>>
dispatchVars == <<requestBody, isStream, deferRegistered, responseStamp, bodyCloses>>
sentVars == <<requestBody, isStream, deferRegistered, responseStamp>>
settleVars == <<completionTokens, textResponse, settlement>>
streamVars == <<upstream, upstreamEnded, prodPc, prodData, streamResponseText,
                downstream, clientGone>>

encoderVars == <<tokenEncoderMap, encodersBuilt, callers, mapFault>>

relayVars == <<pc, ctxVars, planVars, quotaVars, dispatchVars, settleVars, result,
               calls, streamVars>>

vars == <<relayVars, encoderVars>>

NoResult == [code |-> "", status |-> 0]
NoBody == [kind |-> "none", model |-> NoModel]
\* The goroutines that call getTokenEncoder at the same time.
MaxCallers == 2
Callers == 1..MaxCallers

EmptyEncoderMap == [m \in {} |-> 0]
IdleCaller == [pc |-> "idle", model |-> NoModel, tokenEncoder |-> 0]

NoStamp == [Id |-> "", Created |-> 0]
NoCloses == [request |-> 0, response |-> 0]
NoSettlement ==
    [ran |-> FALSE, promptTokens |-> 0, completionTokens |-> 0, raw |-> 0,
     quota |-> 0]

InitOver(contexts, bodies) ==
    /\ pc = "ingest"
    /\ ctx \in contexts
    /\ rawBody \in bodies
    /\ textRequest = ZeroRequest
    /\ isModelMapped = FALSE
    /\ apiType = "OpenAI"
    /\ promptTokens = 0
    /\ completionTokens = 0
    /\ modelRatio = Rat(0, 1)
    /\ groupRatio = Rat(0, 1)
    /\ preConsumedQuota = 0
    /\ userQuota = 0
    /\ requestBody = NoBody
    /\ isStream = FALSE
    /\ deferRegistered = FALSE
    /\ textResponse = [PromptTokens |-> 0, CompletionTokens |-> 0]
    /\ settlement = NoSettlement
    /\ result = NoResult
    /\ calls = <<>>
    /\ upstream = <<>>
    /\ upstreamEnded = FALSE
    /\ prodPc = "idle"
    /\ prodData = <<>>
    /\ streamResponseText = <<>>
    /\ downstream = <<>>
    /\ clientGone = FALSE
    /\ responseStamp = NoStamp
    /\ bodyCloses = NoCloses
    /\ tokenEncoderMap = EmptyEncoderMap
    /\ encodersBuilt = <<>>
    /\ callers = [g \in Callers |-> IdleCaller]
    /\ mapFault = FALSE

\* A return statement: the deferred function, once registered, runs before
\* the helper is left.
Return(code, status) ==
    /\ result' = [code |-> code, status |-> status]
    /\ pc' = IF deferRegistered THEN "deferred" ELSE "done"

\* A call of the quota store or of the upstream: its argument (the amount,
\* the delta or the cost; 0 when there is none) and whether it succeeded.
CallResult(op, arg, ok) == [op |-> op, arg |-> arg, ok |-> ok]

Call(op, arg) == CallResult(op, arg, TRUE)

(***************************************************************************)
(* relay-utils.go 9-25: getTokenEncoder, as one request calls it.          *)
(***************************************************************************)
\* tokenEncoderMap after getTokenEncoder(model) has run alone: the encoder
\* is constructed and inserted when the model has none.
MapAfterGet(map, built, model) ==
    IF model \in DOMAIN map THEN map ELSE map @@ (model :> Len(built) + 1)

BuiltAfterGet(map, built, model) ==
    IF model \in DOMAIN map THEN built ELSE Append(built, model)

\* The request calls getTokenEncoder(model) when used holds.
GetTokenEncoderWhen(used, model) ==
    /\ tokenEncoderMap' = IF used THEN MapAfterGet(tokenEncoderMap, encodersBuilt, model)
                          ELSE tokenEncoderMap
    /\ encodersBuilt' = IF used THEN BuiltAfterGet(tokenEncoderMap, encodersBuilt, model)
                        ELSE encodersBuilt
    /\ UNCHANGED <<callers, mapFault>>

(***************************************************************************)
(* Lines 31-37: the body is parsed when quota is consumed or the channel   *)
(* is Azure or PaLM.                                                       *)
(***************************************************************************)
NeedsParse(consumeQuota, channelType) ==
    consumeQuota \/ channelType = "Azure" \/ channelType = "PaLM"

Ingest ==
    /\ pc = "ingest"
    /\ IF NeedsParse(ctx.consumeQuota, ctx.channelType)
       THEN IF rawBody.wellFormed
            THEN /\ textRequest' = rawBody.req
                 /\ pc' = "validate"
                 /\ UNCHANGED result
            ELSE /\ Return("bind_request_body_failed", 400)
                 /\ UNCHANGED textRequest
       ELSE /\ pc' = "validate"
            /\ UNCHANGED <<textRequest, result>>
    /\ UNCHANGED <<encoderVars, ctxVars, isModelMapped, apiType, quotaVars, dispatchVars,
                   settleVars, calls, streamVars>>

(***************************************************************************)
(* Lines 38-66: mode defaults and request validation.                      *)
(***************************************************************************)
ApplyDefaults(relayMode, req, paramModel) ==
    LET r1 == IF relayMode = "Moderations" /\ req.Model = NoModel
              THEN [req EXCEPT !.Model = ModerationLatest] ELSE req
    IN  IF relayMode = "Embeddings" /\ r1.Model = NoModel
        THEN [r1 EXCEPT !.Model = paramModel] ELSE r1

\* TRUE when one of the returns of lines 45-66 is taken.
MissingField(relayMode, req) ==
    \/ req.Model = NoModel
    \/ relayMode = "Completions" /\ IsEmptyString(req.Prompt)
    \/ relayMode = "ChatCompletions" /\ Len(req.Messages) = 0
    \/ relayMode = "Moderations" /\ IsEmptyString(req.Input)
    \/ relayMode = "Edits" /\ req.Instruction = <<>>

Validate ==
    /\ pc = "validate"
    /\ \E paramModel \in ParamModels :
          textRequest' = ApplyDefaults(ctx.relayMode, textRequest, paramModel)
    /\ IF MissingField(ctx.relayMode, textRequest')
       THEN Return("required_field_missing", 400)
       ELSE pc' = "remap" /\ UNCHANGED result
    /\ UNCHANGED <<encoderVars, ctxVars, isModelMapped, apiType, quotaVars, dispatchVars,
                   settleVars, calls, streamVars>>

(***************************************************************************)
(* Lines 67-84: model remapping and the choice of the dialect.             *)
(***************************************************************************)
ApiTypeOf(model) == IF HasPrefix(model, PrefixClaude) THEN "Claude" ELSE "OpenAI"

Remap ==
    /\ pc = "remap"
    /\ \E modelMapping \in ModelMappings :
          IF modelMapping.k = "empty"
          THEN /\ apiType' = ApiTypeOf(textRequest.Model)
               /\ pc' = "count"
               /\ UNCHANGED <<textRequest, isModelMapped, result>>
          ELSE IF modelMapping.k = "invalid"
          THEN /\ Return("unmarshal_model_mapping_failed", 500)
               /\ UNCHANGED <<textRequest, isModelMapped, apiType>>
          ELSE LET mapped == MapGet(modelMapping.pairs, textRequest.Model)
               IN  /\ textRequest' = IF mapped # NoModel
                                     THEN [textRequest EXCEPT !.Model = mapped]
                                     ELSE textRequest
                   /\ isModelMapped' = (mapped # NoModel)
                   /\ apiType' = ApiTypeOf(textRequest'.Model)
                   /\ pc' = "count"
                   /\ UNCHANGED result
    /\ UNCHANGED <<encoderVars, ctxVars, quotaVars, dispatchVars, settleVars, calls, streamVars>>

(***************************************************************************)
(* Lines 118-135: the prompt is counted and the pre-consume estimate made. *)
(* The upstream URL (lines 85-117) takes no part in what follows.          *)
(***************************************************************************)
CountPromptTokens(relayMode, req) ==
    CASE relayMode = "ChatCompletions" -> countTokenMessages(req.Messages)
      [] relayMode = "Completions" -> countTokenInput(req.Prompt)
      [] relayMode = "Moderations" -> countTokenInput(req.Input)
      [] OTHER -> 0

PreConsumedTokens(prompt, maxTokens) ==
    IF maxTokens # 0 THEN prompt + maxTokens ELSE PreConsumedQuota

Ratio == RatMul(modelRatio, groupRatio)

\* countTokenMessages always takes the encoder; countTokenInput takes it for
\* a string only.
CountUsesEncoder(relayMode, req) ==
    CASE relayMode = "ChatCompletions" -> TRUE
      [] relayMode = "Completions" -> req.Prompt.k = "string"
      [] relayMode = "Moderations" -> req.Input.k = "string"
      [] OTHER -> FALSE

CountPrompt(pricings) ==
    /\ pc = "count"
    /\ promptTokens' = CountPromptTokens(ctx.relayMode, textRequest)
    /\ GetTokenEncoderWhen(CountUsesEncoder(ctx.relayMode, textRequest),
                           textRequest.Model)
    /\ \E pricing \in pricings :
          /\ modelRatio' = pricing[1]
          /\ groupRatio' = pricing[2]
          /\ preConsumedQuota' =
                IntOfProduct(PreConsumedTokens(promptTokens', textRequest.MaxTokens),
                             RatMul(pricing[1], pricing[2]))
    /\ pc' = "quota"
    /\ UNCHANGED <<ctxVars, planVars, userQuota, dispatchVars, settleVars, result,
                   calls, streamVars>>

(***************************************************************************)
(* Lines 136-144: the cached user quota and the wealth skip.               *)
(***************************************************************************)
\* Variant: the estimate is kept whatever the user's quota.
WealthSkipNever(quotaOfUser, estimate) == estimate

WealthSkip(quotaOfUser, estimate) ==
    IF quotaOfUser > 10 * estimate THEN 0 ELSE estimate

GetUserQuota(quotas) ==
    /\ pc = "quota"
    /\ \/ /\ calls' = Append(calls, CallResult("CacheGetUserQuota", 0, FALSE))
          /\ Return("get_user_quota_failed", 500)
          /\ UNCHANGED <<userQuota, preConsumedQuota>>
       \/ \E q \in quotas :
             /\ calls' = Append(calls, Call("CacheGetUserQuota", 0))
             /\ userQuota' = q
             /\ preConsumedQuota' = WealthSkip(q, preConsumedQuota)
             /\ pc' = "preconsume"
             /\ UNCHANGED result
    /\ UNCHANGED <<encoderVars, ctxVars, planVars, promptTokens, modelRatio, groupRatio,
                   dispatchVars, settleVars, streamVars>>

(***************************************************************************)
(* Lines 145-150: the pre-consume debit.                                   *)
(***************************************************************************)
ShouldPreConsume(consumeQuota, estimate, channelName) ==
    consumeQuota /\ estimate > 0 /\ ~IsFreeChannel(channelName)

\* Variant: the error of PreConsumeTokenQuota is dropped.
AfterPreConsumeIgnoringError(ok) == "build"

\* Where the helper goes after PreConsumeTokenQuota returned.
AfterPreConsume(ok) == IF ok THEN "build" ELSE "done"

PreConsume ==
    /\ pc = "preconsume"
    /\ IF ShouldPreConsume(ctx.consumeQuota, preConsumedQuota, ctx.channelName)
       THEN \E ok \in BOOLEAN :
               /\ calls' = Append(calls, CallResult("PreConsumeTokenQuota",
                                                    preConsumedQuota, ok))
               /\ IF AfterPreConsume(ok) = "done"
                  THEN Return("pre_consume_token_quota_failed", 403)
                  ELSE pc' = AfterPreConsume(ok) /\ UNCHANGED result
       ELSE /\ pc' = "build"
            /\ UNCHANGED <<calls, result>>
    /\ UNCHANGED <<encoderVars, ctxVars, planVars, quotaVars, dispatchVars, settleVars, streamVars>>

(***************************************************************************)
(* Lines 151-169: the body that is dispatched.  The Claude case of the     *)
(* switch at line 161 overwrites what lines 152-160 chose.                 *)
(***************************************************************************)
\* Variant: a remapped model wins over the Claude dialect.
SelectBodyMappedFirst(mapped, api) ==
    IF mapped THEN "canonical"
    ELSE IF api = "Claude" THEN "claude" ELSE "original"

SelectBody(mapped, api) ==
    IF api = "Claude" THEN "claude"
    ELSE IF mapped THEN "canonical" ELSE "original"

\* The model name the dispatched body carries.
BodyModel(kind) == IF kind = "original" THEN rawBody.req.Model ELSE textRequest.Model

BuildBody ==
    /\ pc = "build"
    /\ \/ /\ isModelMapped \/ apiType = "Claude"
          /\ Return("marshal_text_request_failed", 500)
          /\ UNCHANGED requestBody
       \/ /\ requestBody' = [kind |-> SelectBody(isModelMapped, apiType),
                             model |-> BodyModel(SelectBody(isModelMapped, apiType))]
          /\ pc' = "newreq"
          /\ UNCHANGED result
    /\ UNCHANGED <<encoderVars, ctxVars, planVars, quotaVars, isStream, deferRegistered,
                   responseStamp, bodyCloses, settleVars, calls, streamVars>>

(***************************************************************************)
(* Lines 170-206: the upstream request is built and sent, and the request  *)
(* bodies are closed.                                                      *)
(***************************************************************************)
NewRequest ==
    /\ pc = "newreq"
    /\ \/ Return("new_request_failed", 500)
       \/ pc' = "do" /\ UNCHANGED result
    /\ UNCHANGED <<encoderVars, ctxVars, planVars, quotaVars, dispatchVars, settleVars, calls,
                   streamVars>>

DoRequest ==
    /\ pc = "do"
    /\ \/ /\ calls' = Append(calls, CallResult("client.Do", 0, FALSE))
          /\ Return("do_request_failed", 500)
       \/ /\ calls' = Append(calls, Call("client.Do", 0))
          /\ pc' = "closereq"
          /\ UNCHANGED result
    /\ UNCHANGED <<encoderVars, ctxVars, planVars, quotaVars, dispatchVars, settleVars, streamVars>>

\* req.Body is c.Request.Body itself when the caller's body was dispatched,
\* and a wrapper of the marshalled buffer otherwise.
InboundCloses(kind, upTo) ==
    (IF kind = "original" THEN 1 ELSE 0) + (IF upTo = 203 THEN 1 ELSE 0)

ClosedRequest(closes, n) == [closes EXCEPT !.request = @ + n]

ClosedResponse(closes, n) == [closes EXCEPT !.response = @ + n]

CloseRequestBody ==
    /\ pc = "closereq"
    /\ \/ /\ Return("close_request_body_failed", 500)
          /\ \E line \in {199, 203} :
                bodyCloses' = ClosedRequest(bodyCloses,
                                            InboundCloses(requestBody.kind, line))
       \/ /\ pc' = "classify"
          /\ bodyCloses' = ClosedRequest(bodyCloses,
                                         InboundCloses(requestBody.kind, 203))
          /\ UNCHANGED result
    /\ UNCHANGED <<encoderVars, ctxVars, planVars, quotaVars, sentVars, settleVars, calls,
                   streamVars>>

(***************************************************************************)
(* Lines 207-259: the response is classified by its Content-Type and the   *)
(* settlement is deferred.                                                 *)
(***************************************************************************)
\* Lines 379-380: the id and the creation time given to a Claude stream.
Stamps == {[Id |-> "chatcmpl-u", Created |-> 1], [Id |-> "chatcmpl-v", Created |-> 2]}

Classify ==
    /\ pc = "classify"
    /\ isStream' \in BOOLEAN
    /\ deferRegistered' = TRUE
    /\ pc' = IF isStream' THEN "stream" ELSE "buffered"
    /\ prodPc' = IF isStream' THEN "scan" ELSE prodPc
    /\ responseStamp' \in IF isStream' /\ apiType = "Claude" THEN Stamps ELSE {NoStamp}
    /\ UNCHANGED <<encoderVars, ctxVars, planVars, quotaVars, requestBody, bodyCloses, settleVars, result,
                   calls, upstream, upstreamEnded, prodData, streamResponseText,
                   downstream, clientGone>>

(***************************************************************************)
(* Lines 211-258: the deferred settlement.                                 *)
(***************************************************************************)
CompletionRatio(model) ==
    IF HasPrefix(model, PrefixGpt4) THEN Rat(2, 1)
    ELSE IF HasPrefix(model, PrefixGpt35) THEN Rat(1333333, 1000000)
    ELSE Rat(1, 1)

\* Lines 227-228: the cost before the clamps.
RawQuota(prompt, completion, completionRatio, ratio) ==
    IntOfProduct(prompt + IntOfProduct(completion, completionRatio), ratio)

\* Variant: a cost that rounds down to 0 stays 0.
ClampQuotaNoMinimum(raw, prompt, completion, ratio) ==
    IF prompt + completion = 0 THEN 0 ELSE raw

\* Variant: a request without tokens is not forced to cost 0.
ClampQuotaNoZero(raw, prompt, completion, ratio) ==
    IF ratio.n # 0 /\ raw <= 0 THEN 1 ELSE raw

\* Lines 229-237: the clamps.
ClampQuota(raw, prompt, completion, ratio) ==
    LET q == IF ratio.n # 0 /\ raw <= 0 THEN 1 ELSE raw
    IN  IF prompt + completion = 0 THEN 0 ELSE q

\* Variant: the whole cost is posted, the pre-consumed amount forgotten.
SettleCallsNoReconcile(channelName, cost, estimate) ==
    IF IsFreeChannel(channelName) THEN <<>>
    ELSE <<Call("PostConsumeTokenQuota", cost), Call("CacheUpdateUserQuota", 0)>>

\* Lines 241-256: the calls made to the quota store.
SettleCalls(channelName, cost, estimate) ==
    IF IsFreeChannel(channelName) THEN <<>>
    ELSE <<Call("PostConsumeTokenQuota", cost - estimate),
           Call("CacheUpdateUserQuota", 0)>>
         \o (IF cost # 0
             THEN <<Call("UpdateUserUsedQuotaAndRequestCount", cost),
                    Call("UpdateChannelUsedQuota", cost)>>
             ELSE <<>>)

Settle ==
    /\ pc = "deferred"
    /\ IF ctx.consumeQuota
       THEN LET ct == IF isStream THEN countTokenText(streamResponseText)
                      ELSE textResponse.CompletionTokens
                pt == IF isStream THEN promptTokens ELSE textResponse.PromptTokens
                raw == RawQuota(pt, ct, CompletionRatio(textRequest.Model), Ratio)
                q == ClampQuota(raw, pt, ct, Ratio)
            IN  /\ completionTokens' = ct
                /\ promptTokens' = pt
                /\ settlement' = [ran |-> TRUE, promptTokens |-> pt,
                                  completionTokens |-> ct, raw |-> raw, quota |-> q]
                /\ calls' = calls \o <<Call("RecordConsumeLog", q)>>
                                  \o SettleCalls(ctx.channelName, q, preConsumedQuota)
       ELSE UNCHANGED <<completionTokens, promptTokens, settlement, calls>>
    /\ GetTokenEncoderWhen(ctx.consumeQuota /\ isStream, textRequest.Model)
    /\ pc' = "done"
    /\ UNCHANGED <<ctxVars, planVars, modelRatio, groupRatio, preConsumedQuota,
                   userQuota, dispatchVars, textResponse, result, streamVars>>

(***************************************************************************)
(* Lines 337-376 and 445-485: the buffered responses.                      *)
(***************************************************************************)
UsageValues == [PromptTokens : {0, 1, 3}, CompletionTokens : {0, 3}]

NoUsage == [PromptTokens |-> 0, CompletionTokens |-> 0]

ClaudeCompletions == {<<>>, <<"a">>, <<"a", "b", "c">>}

BufferedOpenAI ==
    /\ pc = "buffered"
    /\ apiType = "OpenAI"
    /\ \/ /\ ctx.consumeQuota
          /\ Return("read_response_body_failed", 500)
          /\ UNCHANGED <<textResponse, bodyCloses>>
       \/ /\ ctx.consumeQuota
          /\ Return("close_response_body_failed", 500)
          /\ bodyCloses' = ClosedResponse(bodyCloses, 1)
          /\ UNCHANGED textResponse
       \* Line 346: json.Unmarshal fills textResponse; on a type error it has
       \* filled the fields that did decode, and an error envelope may carry
       \* a usage object beside its error.
       \/ /\ ctx.consumeQuota
          /\ \/ Return("unmarshal_response_body_failed", 500)
             \/ Return("upstream_error", 0)
          /\ bodyCloses' = ClosedResponse(bodyCloses, 1)
          /\ textResponse' \in UsageValues
       \* Lines 357-375: with consumeQuota the body closed at line 371 is the
       \* io.NopCloser of line 357, whose Close cannot fail.
       \/ /\ textResponse' \in (IF ctx.consumeQuota THEN UsageValues ELSE {NoUsage})
          /\ \/ /\ Return("copy_response_body_failed", 500)
                /\ bodyCloses' = ClosedResponse(bodyCloses,
                                                IF ctx.consumeQuota THEN 1 ELSE 0)
             \/ /\ ~ctx.consumeQuota
                /\ Return("close_response_body_failed", 500)
                /\ bodyCloses' = ClosedResponse(bodyCloses, 1)
             \/ /\ Return("nil", 0)
                /\ bodyCloses' = ClosedResponse(bodyCloses, 1)
    /\ UNCHANGED <<encoderVars, ctxVars, planVars, quotaVars, sentVars, completionTokens,
                   settlement, calls, streamVars>>

BufferedClaude ==
    /\ pc = "buffered"
    /\ apiType = "Claude"
    /\ \/ /\ Return("read_response_body_failed", 500)
          /\ UNCHANGED <<textResponse, bodyCloses, encoderVars>>
       \/ /\ \E code \in {"close_response_body_failed",
                          "unmarshal_response_body_failed"} :
                Return(code, 500)
          /\ bodyCloses' = ClosedResponse(bodyCloses, 1)
          /\ UNCHANGED <<textResponse, encoderVars>>
       \/ /\ Return("upstream_error", 0)
          /\ bodyCloses' = ClosedResponse(bodyCloses, 1)
          /\ UNCHANGED <<textResponse, encoderVars>>
       \/ /\ \E completion \in ClaudeCompletions :
                textResponse' = [PromptTokens |-> promptTokens,
                                 CompletionTokens |-> countTokenText(completion)]
          /\ bodyCloses' = ClosedResponse(bodyCloses, 1)
          /\ GetTokenEncoderWhen(TRUE, textRequest.Model)
          /\ \/ Return("marshal_response_body_failed", 500)
             \/ Return("nil", 0)
    /\ UNCHANGED <<ctxVars, planVars, quotaVars, sentVars, completionTokens,
                   settlement, calls, streamVars>>

(***************************************************************************)
(* Stream frames.  A line or event is a sequence of pieces; a piece is a   *)
(* literal of known length or a payload.                                   *)
(***************************************************************************)
Piece(t, c) == [t |-> t, c |-> c]

DataPrefix == Piece("data: ", <<>>)
DoneMark == Piece("[DONE]", <<>>)
CR == Piece("CR", <<>>)
Garbled == Piece("garbled", <<>>)
EvCompletion == Piece("event: completion", <<>>)
EvPing == Piece("event: ping", <<>>)
CrLfData == Piece("CRLFdata: ", <<>>)

\* A JSON object whose choices carry the text c (OpenAI) or whose completion
\* is c (Claude).
Json(c) == Piece("json", c)

PieceLen(piece) ==
    CASE piece.t = "data: " -> 6
      [] piece.t = "[DONE]" -> 6
      [] piece.t = "CR" -> 1
      [] piece.t = "garbled" -> 5
      [] piece.t = "event: completion" -> 17
      [] piece.t = "event: ping" -> 11
      [] piece.t = "CRLFdata: " -> 8
      [] OTHER -> 20

RECURSIVE StrLen(_)
StrLen(line) == IF line = <<>> THEN 0 ELSE PieceLen(Head(line)) + StrLen(Tail(line))

\* data[6:]
Drop6(line) == IF PieceLen(Head(line)) = 6 THEN Tail(line) ELSE <<Garbled>>

\* strings.TrimSuffix(data, "\r")
TrimSuffixCR(line) ==
    IF Len(line) > 0 /\ line[Len(line)] = CR THEN SubSeq(line, 1, Len(line) - 1)
    ELSE line

\* strings.TrimPrefix(data, "event: completion\r\ndata: ")
TrimEventPrefix(line) ==
    IF HasPrefix(line, <<EvCompletion, CrLfData>>) THEN SubSeq(line, 3, Len(line))
    ELSE line

\* json.Unmarshal succeeds on one JSON value followed by white space only.
ParseOK(payload) ==
    /\ Len(payload) >= 1
    /\ payload[1].t = "json"
    /\ \A i \in 2..Len(payload) : payload[i] = CR

\* Variant: the trailing \r is kept.
RenderOpenAIUntrimmed(data) ==
    IF HasPrefix(data, <<DataPrefix, DoneMark>>) THEN SubSeq(data, 1, 2) ELSE data

\* Lines 320-324: what the OpenAI consumer renders for a received line.
RenderOpenAI(data) ==
    TrimSuffixCR(IF HasPrefix(data, <<DataPrefix, DoneMark>>) THEN SubSeq(data, 1, 2)
                 ELSE data)

OpenAILines ==
    { <<>>,
      <<DataPrefix, Json(<<"a">>)>>,
      <<DataPrefix, Json(<<"b">>), CR>>,
      <<DataPrefix, Garbled>>,
      <<DataPrefix, DoneMark>>,
      <<DataPrefix, DoneMark, CR>> }

ClaudeEvents ==
    { <<EvPing>>,
      <<EvCompletion, CrLfData, Json(<<"a">>)>>,
      <<EvCompletion, CrLfData, Json(<<"b">>), CR>>,
      <<EvCompletion, CrLfData, Garbled>> }

(***************************************************************************)
(* Lines 277-311 and 396-406: the producer goroutine.                      *)
(***************************************************************************)
\* Lines 280-283 and 399-403: the frame handed to dataChan, <<>> when the
\* line is skipped.
FrameToSend(api, line) ==
    IF api = "OpenAI"
    THEN IF StrLen(line) < 6 THEN <<>> ELSE line
    ELSE IF HasPrefix(line, <<EvCompletion>>) THEN TrimEventPrefix(line) ELSE <<>>

\* scanner.Scan() returns the next line or event of a response body drawn
\* from bodies, or false at its end or at a read error.
NextFrames(bodies, read) ==
    {body[Len(read) + 1] : body \in {b \in bodies : Len(b) > Len(read) /\ HasPrefix(b, read)}}

ProducerScan(lineBodies, eventBodies) ==
    /\ prodPc = "scan"
    /\ \/ /\ upstreamEnded' = TRUE
          /\ prodPc' = "stop"
          /\ UNCHANGED <<upstream, prodData>>
       \/ /\ \E line \in NextFrames(IF apiType = "OpenAI" THEN lineBodies
                                     ELSE eventBodies, upstream) :
                /\ upstream' = Append(upstream, line)
                /\ prodData' = FrameToSend(apiType, line)
                /\ prodPc' = IF prodData' = <<>> THEN "scan" ELSE "send"
          /\ UNCHANGED upstreamEnded
    /\ UNCHANGED <<pc, encoderVars, ctxVars, planVars, quotaVars, dispatchVars, settleVars, result,
                   calls, streamResponseText, downstream, clientGone>>

\* Lines 284-308: where the OpenAI producer goes after its send, and what it
\* adds to the accumulator.
ParsesFrames(relayMode) == relayMode \in {"ChatCompletions", "Completions"}

AfterParse(relayMode, payload) ==
    IF HasPrefix(payload, <<DoneMark>>) \/ ~ParsesFrames(relayMode) THEN "scan"
    ELSE IF ParseOK(payload) THEN "scan" ELSE "aborted"

Accumulated(relayMode, payload) ==
    IF ~HasPrefix(payload, <<DoneMark>>) /\ ParsesFrames(relayMode) /\ ParseOK(payload)
    THEN payload[1].c ELSE <<>>

ProducerParse ==
    /\ prodPc = "parse"
    /\ prodPc' = AfterParse(ctx.relayMode, Drop6(prodData))
    /\ streamResponseText' =
           streamResponseText \o Accumulated(ctx.relayMode, Drop6(prodData))
    /\ UNCHANGED <<pc, encoderVars, ctxVars, planVars, quotaVars, dispatchVars, settleVars, result,
                   calls, upstream, upstreamEnded, prodData, downstream, clientGone>>

(***************************************************************************)
(* Lines 317-335 and 412-443: the consumer, run by c.Stream on the request *)
(* task.  c.Stream leaves its loop when the client is gone or when the     *)
(* step function returns false.                                            *)
(***************************************************************************)
StreamLoop ==
    /\ pc = "stream"
    /\ pc' = IF clientGone THEN "closeresp" ELSE "select"
    /\ UNCHANGED <<encoderVars, ctxVars, planVars, quotaVars, dispatchVars, settleVars, result,
                   calls, streamVars>>

\* What a write to the client leaves downstream.
Rendered(frame) == IF clientGone THEN downstream ELSE Append(downstream, frame)

\* Lines 424-432: the frame a Claude completion is translated to.
streamResponseClaude2OpenAI(completion, stamp) ==
    <<DataPrefix,
      [t |-> "json", c |-> completion, id |-> stamp.Id, created |-> stamp.Created]>>

\* case data := <-dataChan, with the producer at its send
ReceiveData ==
    /\ pc = "select"
    /\ prodPc = "send"
    /\ IF apiType = "OpenAI"
       THEN /\ downstream' = Rendered(RenderOpenAI(prodData))
            /\ prodPc' = "parse"
            /\ UNCHANGED streamResponseText
       ELSE /\ prodPc' = "scan"
            /\ IF ParseOK(TrimSuffixCR(prodData))
               THEN /\ streamResponseText' =
                           streamResponseText \o TrimSuffixCR(prodData)[1].c
                    /\ downstream' =
                           Rendered(streamResponseClaude2OpenAI(
                                        TrimSuffixCR(prodData)[1].c, responseStamp))
               ELSE UNCHANGED <<streamResponseText, downstream>>
    /\ pc' = "stream"
    /\ UNCHANGED <<encoderVars, ctxVars, planVars, quotaVars, dispatchVars, settleVars, result,
                   calls, upstream, upstreamEnded, prodData, clientGone>>

\* Variant: no dialect writes a final frame.
StopFrameNone(api) == <<>>

\* Lines 328 and 435: what the consumer writes when it is told to stop.
StopFrame(api) == IF api = "Claude" THEN <<DataPrefix, DoneMark>> ELSE <<>>

\* case <-stopChan, with the producer at line 310 or 405
ReceiveStop ==
    /\ pc = "select"
    /\ prodPc = "stop"
    /\ prodPc' = "finished"
    /\ downstream' = IF StopFrame(apiType) = <<>> THEN downstream
                     ELSE Rendered(StopFrame(apiType))
    /\ pc' = "closeresp"
    /\ UNCHANGED <<encoderVars, ctxVars, planVars, quotaVars, dispatchVars, settleVars, result,
                   calls, upstream, upstreamEnded, prodData, streamResponseText,
                   clientGone>>

ClientDisconnect ==
    /\ pc \in {"stream", "select"}
    /\ ~clientGone
    /\ clientGone' = TRUE
    /\ UNCHANGED <<pc, encoderVars, ctxVars, planVars, quotaVars, dispatchVars, settleVars, result,
                   calls, upstream, upstreamEnded, prodPc, prodData,
                   streamResponseText, downstream>>

\* Lines 331-335 and 439-443.
CloseResponseBody ==
    /\ pc = "closeresp"
    /\ \/ Return("close_response_body_failed", 500)
       \/ Return("nil", 0)
    /\ bodyCloses' = ClosedResponse(bodyCloses, 1)
    /\ UNCHANGED <<encoderVars, ctxVars, planVars, quotaVars, sentVars, settleVars, calls,
                   streamVars>>

(***************************************************************************)
(* The specification of the whole relay: every context and body, prices    *)
(* and quotas, and short streams.                                          *)
(***************************************************************************)
RelayLineBodies == { << <<DataPrefix, Json(<<"a">>)>> >>, << <<DataPrefix, Garbled>> >> }

RelayEventBodies == { << <<EvCompletion, CrLfData, Json(<<"a">>)>> >> }

Init == InitOver(Contexts, RawBodies)

Next ==
    \/ Ingest
    \/ Validate
    \/ Remap
    \/ CountPrompt(Pricings)
    \/ GetUserQuota(UserQuotas)
    \/ PreConsume
    \/ BuildBody
    \/ NewRequest
    \/ DoRequest
    \/ CloseRequestBody
    \/ Classify
    \/ BufferedOpenAI
    \/ BufferedClaude
    \/ ProducerScan(RelayLineBodies, RelayEventBodies)
    \/ ProducerParse
    \/ StreamLoop
    \/ ReceiveData
    \/ ReceiveStop
    \/ ClientDisconnect
    \/ CloseResponseBody
    \/ Settle

Spec == Init /\ [][Next]_vars

(***************************************************************************)
(* The specification of the stream pump: well-formed requests at one       *)
(* price, and longer streams over every kind of line and event.            *)
(***************************************************************************)
\* The pump treats Moderations and Edits as it treats Embeddings: it parses
\* the frames of ChatCompletions and Completions only.
StreamContexts ==
    [consumeQuota : BOOLEAN, channelType : {"Azure"},
     channelName : {<<"mian", "-", "fei">>},
     relayMode : {"ChatCompletions", "Completions", "Embeddings"}]

StreamBodies ==
    {[wellFormed |-> TRUE, req |-> ContentFull(m, 0)] : m \in {Gpt35, Claude2}}

\* Every response body of at most MaxFrames lines or events.
BodiesOver(frames) == UNION {[1..n -> frames] : n \in 0..MaxFrames}

StreamLineBodies == BodiesOver(OpenAILines)

StreamEventBodies == BodiesOver(ClaudeEvents)

StreamInit == InitOver(StreamContexts, StreamBodies)

StreamNext ==
    \/ Ingest
    \/ Validate
    \/ Remap
    \/ CountPrompt({<<Rat(1, 2), Rat(1, 1)>>})
    \/ GetUserQuota({100})
    \/ PreConsume
    \/ BuildBody
    \/ NewRequest
    \/ DoRequest
    \/ CloseRequestBody
    \/ Classify
    \/ BufferedOpenAI
    \/ BufferedClaude
    \/ ProducerScan(StreamLineBodies, StreamEventBodies)
    \/ ProducerParse
    \/ StreamLoop
    \/ ReceiveData
    \/ ReceiveStop
    \/ ClientDisconnect
    \/ CloseResponseBody
    \/ Settle

StreamSpec == StreamInit /\ [][StreamNext]_vars

\* The steps of the request task and of the producer goroutine: the Go
\* scheduler runs a goroutine that can take a step.  The client is not
\* obliged to disconnect.
StreamProgram ==
    \/ Ingest
    \/ Validate
    \/ Remap
    \/ CountPrompt({<<Rat(1, 2), Rat(1, 1)>>})
    \/ GetUserQuota({100})
    \/ PreConsume
    \/ BuildBody
    \/ NewRequest
    \/ DoRequest
    \/ CloseRequestBody
    \/ Classify
    \/ BufferedOpenAI
    \/ BufferedClaude
    \/ ProducerScan(StreamLineBodies, StreamEventBodies)
    \/ ProducerParse
    \/ StreamLoop
    \/ ReceiveData
    \/ ReceiveStop
    \/ CloseResponseBody
    \/ Settle

\* Chat requests that consume quota are enough to take every path of the pump.
FairStreamContexts ==
    [consumeQuota : {TRUE}, channelType : {"Azure"},
     channelName : {<<"mian", "-", "fei">>}, relayMode : {"ChatCompletions"}]

FairStreamInit == InitOver(FairStreamContexts, StreamBodies)

FairStreamSpec == FairStreamInit /\ [][StreamNext]_vars /\ WF_vars(StreamProgram)

(***************************************************************************)
(* relay-utils.go 9-25: getTokenEncoder called by requests served at the   *)
(* same time.  Nothing orders the accesses to tokenEncoderMap; a read or a *)
(* write that meets a write in progress is a data race, on which the Go    *)
(* runtime may stop the process (fatal error: concurrent map writes /      *)
(* concurrent map read and map write) or let the access go on.             *)
(***************************************************************************)
EncoderModels == {Gpt35, Claude2}

OtherStoring(g) == \E h \in Callers \ {g} : callers[h].pc = "storing"

\* A request enters getTokenEncoder(model).
EnterGetTokenEncoder(g) ==
    /\ ~mapFault
    /\ callers[g].pc = "idle"
    /\ \E model \in EncoderModels :
          callers' = [callers EXCEPT ![g] = [pc |-> "lookup", model |-> model,
                                             tokenEncoder |-> 0]]
    /\ UNCHANGED <<tokenEncoderMap, encodersBuilt, mapFault, relayVars>>

\* Lines 12-14: the lookup.
LookupEncoder(g) ==
    /\ ~mapFault
    /\ callers[g].pc = "lookup"
    /\ \/ /\ callers[g].model \in DOMAIN tokenEncoderMap
          /\ callers' = [callers EXCEPT
                            ![g].pc = "done",
                            ![g].tokenEncoder = tokenEncoderMap[callers[g].model]]
          /\ UNCHANGED mapFault
       \/ /\ callers[g].model \notin DOMAIN tokenEncoderMap
          /\ callers' = [callers EXCEPT ![g].pc = "construct"]
          /\ UNCHANGED mapFault
       \/ /\ OtherStoring(g)
          /\ mapFault' = TRUE
          /\ UNCHANGED callers
    /\ UNCHANGED <<tokenEncoderMap, encodersBuilt, relayVars>>

\* Lines 15-22: the encoder is constructed, with the encoding of
\* gpt-3.5-turbo when the model has none of its own.
ConstructEncoder(g) ==
    /\ ~mapFault
    /\ callers[g].pc = "construct"
    /\ encodersBuilt' = Append(encodersBuilt, callers[g].model)
    /\ callers' = [callers EXCEPT ![g].pc = "store",
                                  ![g].tokenEncoder = Len(encodersBuilt) + 1]
    /\ UNCHANGED <<tokenEncoderMap, mapFault, relayVars>>

\* Line 23: the map assignment begins ...
BeginStoreEncoder(g) ==
    /\ ~mapFault
    /\ callers[g].pc = "store"
    /\ \/ /\ callers' = [callers EXCEPT ![g].pc = "storing"]
          /\ UNCHANGED mapFault
       \/ /\ OtherStoring(g)
          /\ mapFault' = TRUE
          /\ UNCHANGED callers
    /\ UNCHANGED <<tokenEncoderMap, encodersBuilt, relayVars>>

\* ... and ends; line 24 returns the encoder this call constructed.
EndStoreEncoder(g) ==
    /\ ~mapFault
    /\ callers[g].pc = "storing"
    /\ tokenEncoderMap' =
           (callers[g].model :> callers[g].tokenEncoder) @@ tokenEncoderMap
    /\ callers' = [callers EXCEPT ![g].pc = "done"]
    /\ UNCHANGED <<encodersBuilt, mapFault, relayVars>>

EncoderContexts ==
    {[consumeQuota |-> TRUE, channelType |-> "OpenAI",
      channelName |-> <<"mian", "-", "fei">>, relayMode |-> "ChatCompletions"]}

EncoderBodies == {[wellFormed |-> TRUE, req |-> ContentFull(Gpt35, 0)]}

EncoderInit == InitOver(EncoderContexts, EncoderBodies)

EncoderNext ==
    \/ \E g \in Callers : EnterGetTokenEncoder(g)
    \/ \E g \in Callers : LookupEncoder(g)
    \/ \E g \in Callers : ConstructEncoder(g)
    \/ \E g \in Callers : BeginStoreEncoder(g)
    \/ \E g \in Callers : EndStoreEncoder(g)

EncoderSpec == EncoderInit /\ [][EncoderNext]_vars

(***************************************************************************)
(* Properties.                                                             *)
(***************************************************************************)
CallsOf(op) == SelectSeq(calls, LAMBDA c : c.op = op)

Called(op) == Len(CallsOf(op)) > 0

\* The amount PreConsumeTokenQuota debited, 0 when it was not called or
\* rejected the debit.
PreDebit ==
    IF \E i \in 1..Len(calls) : calls[i].op = "PreConsumeTokenQuota" /\ calls[i].ok
    THEN (CHOOSE c \in {calls[i] : i \in 1..Len(calls)} :
              c.op = "PreConsumeTokenQuota" /\ c.ok).arg
    ELSE 0

OnFreeChannel == Contains(ctx.channelName, FreeMarker)

SettlementOps ==
    {"PreConsumeTokenQuota", "PostConsumeTokenQuota", "CacheUpdateUserQuota",
     "UpdateUserUsedQuotaAndRequestCount", "UpdateChannelUsedQuota"}

\* C1: a request with consumeQuota true whose pre-consume debit succeeded
\* has called PostConsumeTokenQuota by the time relayTextHelper has returned,
\* whatever the exit taken.
C1_SettlementOnEveryExit ==
    (pc = "done" /\ ctx.consumeQuota /\ PreDebit > 0)
        => Called("PostConsumeTokenQuota")

C3_FreeChannelNoSettlementCalls ==
    OnFreeChannel => \A i \in 1..Len(calls) : calls[i].op \notin SettlementOps

C3_Witness ==
    /\ OnFreeChannel
    /\ ctx.consumeQuota
    /\ pc = "done"
    /\ settlement.ran
    /\ settlement.quota > 0
    /\ Called("RecordConsumeLog")

\* The completion ratios as the specification gives them.
ExactCompletionRatio(model) ==
    IF HasPrefix(model, PrefixGpt35) THEN Rat(4, 3)
    ELSE IF HasPrefix(model, PrefixGpt4) THEN Rat(2, 1)
    ELSE Rat(1, 1)

\* C4: the cost before clamping is
\* floor((promptTokens + floor(completionTokens * completionRatio)) * modelRatio
\* * groupRatio), with completionRatio exactly 4/3 for gpt-3.5 models, 2 for
\* gpt-4 models and 1 otherwise.
C4_CostFormula ==
    settlement.ran
        => settlement.raw =
              FloorOfProduct(settlement.promptTokens
                                 + FloorOfProduct(settlement.completionTokens,
                                                  ExactCompletionRatio(textRequest.Model)),
                             RatMul(modelRatio, groupRatio))

\* C5: a settled request with no token is recorded and charged a cost of 0;
\* one with tokens and a positive ratio costs at least 1.
C5_CostClamps ==
    settlement.ran
        => LET total == settlement.promptTokens + settlement.completionTokens
           IN  /\ CallsOf("RecordConsumeLog") = <<Call("RecordConsumeLog", settlement.quota)>>
               /\ total = 0
                     => /\ settlement.quota = 0
                        /\ ~Called("UpdateUserUsedQuotaAndRequestCount")
                        /\ ~Called("UpdateChannelUsedQuota")
                        /\ ~OnFreeChannel
                              => PreDebit + CallsOf("PostConsumeTokenQuota")[1].arg = 0
               /\ (total > 0 /\ modelRatio.n * groupRatio.n > 0) => settlement.quota >= 1

C5_Witness ==
    /\ settlement.ran
    /\ settlement.promptTokens + settlement.completionTokens > 0
    /\ settlement.raw = 0
    /\ settlement.quota = 1

\* The estimate as the specification gives it:
\* floor(preConsumedTokens * ratio).
FloorEstimate ==
    FloorOfProduct(IF textRequest.MaxTokens # 0
                   THEN CountPromptTokens(ctx.relayMode, textRequest)
                            + textRequest.MaxTokens
                   ELSE PreConsumedQuota,
                   RatMul(modelRatio, groupRatio))

\* The user's quota was read from the cache.
QuotaRead == \E i \in 1..Len(calls) : calls[i].op = "CacheGetUserQuota" /\ calls[i].ok

C7_PreConsumeRejected ==
    \A i \in 1..Len(calls) :
        (calls[i].op = "PreConsumeTokenQuota" /\ ~calls[i].ok)
            => /\ pc = "done"
               /\ result = [code |-> "pre_consume_token_quota_failed", status |-> 403]
               /\ i = Len(calls)
               /\ ~settlement.ran
               /\ requestBody = NoBody

C7_Witness ==
    /\ result.code = "pre_consume_token_quota_failed"
    /\ \E i \in 1..Len(calls) : calls[i].op = "PreConsumeTokenQuota" /\ ~calls[i].ok

\* C8: with consumeQuota false on a channel that is neither Azure nor PaLM,
\* a well-formed request that carries its model and the field its mode
\* requires is not rejected by validation.
C8_UnparsedBodyNotRejected ==
    (/\ ~ctx.consumeQuota
     /\ ctx.channelType \notin {"Azure", "PaLM"}
     /\ rawBody.wellFormed
     /\ rawBody.req.Model # NoModel
     /\ Len(rawBody.req.Messages) > 0
     /\ rawBody.req.Prompt # NilVal /\ ~IsEmptyString(rawBody.req.Prompt)
     /\ rawBody.req.Input # NilVal /\ ~IsEmptyString(rawBody.req.Input)
     /\ rawBody.req.Instruction # <<>>)
        => result.code # "required_field_missing"

\* C9 as claimed: a remapped model makes the body the re-serialized canonical
\* request, for every dialect; otherwise Claude makes it the Claude request;
\* otherwise it is the caller's body.
C9_MappedBodyFirst ==
    requestBody # NoBody
        => requestBody.kind = IF isModelMapped THEN "canonical"
                              ELSE IF apiType = "Claude" THEN "claude"
                              ELSE "original"

\* C9 amended: the Claude dialect makes the body the adapter's Claude request
\* (built from the request that carries the remapped name); otherwise a
\* remapped model makes it the re-serialized canonical request with the
\* remapped name; otherwise it is the caller's body.
C9_ClaudeBodyFirst ==
    requestBody # NoBody
        => /\ requestBody.kind = IF apiType = "Claude" THEN "claude"
                                 ELSE IF isModelMapped THEN "canonical"
                                 ELSE "original"
           /\ requestBody.model = IF requestBody.kind = "original"
                                  THEN rawBody.req.Model ELSE textRequest.Model
           /\ isModelMapped => requestBody.kind # "original"

C9_Witness ==
    /\ isModelMapped
    /\ apiType = "Claude"
    /\ requestBody.kind = "claude"
    /\ requestBody.model = Claude2
    /\ Called("client.Do")

\* C10: a frame whose payload fails to parse does not abort the stream: the
\* producer stops reading only when the upstream has ended.
C10_ParseFailureDoesNotAbort ==
    (isStream /\ prodPc \notin {"scan", "send", "parse", "stop"}) => upstreamEnded


\* A Claude stream, seen by a client that stays connected.
ClaudeStreamConnected == isStream /\ apiType = "Claude" /\ ~clientGone

DoneFrame == <<DataPrefix, DoneMark>>

\* An upstream event that is a completion whose payload is a JSON object.
ParseableCompletion(event) ==
    /\ Len(event) >= 3
    /\ event[1] = EvCompletion
    /\ event[3].t = "json"
    /\ \A i \in 4..Len(event) : event[i] = CR

\* The frames the completions among events translate to, in order.
RECURSIVE TranslatedFrames(_, _)
TranslatedFrames(events, stamp) ==
    IF events = <<>> THEN <<>>
    ELSE (IF ParseableCompletion(Head(events))
          THEN << <<DataPrefix,
                    [t |-> "json", c |-> Head(events)[3].c, id |-> stamp.Id,
                     created |-> stamp.Created]>> >>
          ELSE <<>>)
         \o TranslatedFrames(Tail(events), stamp)

ConsumerLeft == pc \in {"closeresp", "deferred", "done"}

\* The state part of C11: while the stream runs no [DONE] frame is written,
\* and once the consumer has left its loop the client has the translated
\* frames of every parseable completion event, in order, then one [DONE].
ClaudeStreamFrames ==
    ClaudeStreamConnected
        => IF ConsumerLeft
           THEN /\ upstreamEnded
                /\ downstream = TranslatedFrames(upstream, responseStamp) \o <<DoneFrame>>
           ELSE \A i \in 1..Len(downstream) : downstream[i] # DoneFrame

\* C11: in the Claude stream path with the client connected, once the
\* upstream body has ended the stream is eventually terminated with one
\* data: [DONE] frame, written after the translated frame of every parseable
\* completion event (in upstream order, all with the same id and creation
\* time), also when no event or not every event could be parsed.
C11_ClaudeStreamEndsWithDone ==
    /\ []ClaudeStreamFrames
    /\ (isStream /\ apiType = "Claude" /\ upstreamEnded)
           ~> (clientGone \/ (pc = "done" /\ downstream # <<>>
                                 /\ downstream[Len(downstream)] = DoneFrame))

C11_Witness ==
    /\ ClaudeStreamConnected
    /\ pc = "done"
    /\ \E i \in 1..Len(upstream) : upstream[i] = <<EvCompletion, CrLfData, Garbled>>
    /\ \E i \in 1..Len(upstream) : upstream[i] = <<EvPing>>
    /\ Len(downstream) = 2
    /\ downstream[2] = DoneFrame

\* The producer goroutine has returned.
ProducerTerminated == prodPc \in {"finished", "aborted"}

\* C12: when the client has disconnected and the consumer has left its loop,
\* the producer goroutine does not stay blocked on a send to dataChan or
\* stopChan: it eventually terminates.
C12_ProducerTerminatesAfterDisconnect ==
    (isStream /\ clientGone /\ ConsumerLeft) ~> ProducerTerminated

ResponseObtained == \E i \in 1..Len(calls) : calls[i].op = "client.Do" /\ calls[i].ok

\* C13: whenever relayTextHelper has returned, the inbound request body was
\* closed exactly once, and so was the upstream response body if a response
\* was obtained.
C13_BodiesClosedOnce ==
    pc = "done"
        => /\ bodyCloses.request = 1
           /\ ResponseObtained => bodyCloses.response = 1

\* The body was parsed into textRequest and validation is over.
ParsedAndValidated ==
    /\ ctx.consumeQuota \/ ctx.channelType \in {"Azure", "PaLM"}
    /\ rawBody.wellFormed
    /\ pc \notin {"ingest", "validate"}

\* A prompt or input that is absent, the empty string or the empty list.
EmptyValue(a) == a.k = "nil" \/ a.v = <<>>

\* The model (after the mode defaults) or the field the mode requires is
\* empty.
RequiredFieldEmpty ==
    \/ textRequest.Model = NoModel
    \/ ctx.relayMode = "Completions" /\ EmptyValue(textRequest.Prompt)
    \/ ctx.relayMode = "ChatCompletions" /\ textRequest.Messages = <<>>
    \/ ctx.relayMode = "Moderations" /\ EmptyValue(textRequest.Input)
    \/ ctx.relayMode = "Edits" /\ textRequest.Instruction = <<>>

\* C14: a parsed request is rejected with 400 required_field_missing exactly
\* when its model, after the mode defaults, or the field its mode requires
\* is empty; a rejected request remaps no model, calls no quota RPC and is
\* not dispatched.
C14_ValidationRejectsExactlyEmpty ==
    ParsedAndValidated
        => /\ (result = [code |-> "required_field_missing", status |-> 400])
                  <=> RequiredFieldEmpty
           /\ result.code = "required_field_missing"
                  => calls = <<>> /\ ~isModelMapped /\ requestBody = NoBody

\* C15: a free-channel request that reached the response phase has written
\* one consumption log record when it returns, with consumeQuota true and
\* with consumeQuota false alike.
C15_FreeChannelStillLogged ==
    (pc = "done" /\ deferRegistered /\ OnFreeChannel)
        => Len(CallsOf("RecordConsumeLog")) = 1

\* C16: a free-channel request calls nothing of the quota store, the read of
\* the cached user quota included, and so cannot fail on it.
C16_FreeChannelNoQuotaRpc ==
    OnFreeChannel
        => /\ \A i \in 1..Len(calls) :
                 calls[i].op \notin SettlementOps \cup {"CacheGetUserQuota"}
           /\ result.code # "get_user_quota_failed"

\* C17: whatever the interleaving of concurrent getTokenEncoder calls, at
\* most one encoder is constructed for a model, the callers for one model
\* all get the same encoder, and no access to tokenEncoderMap races with a
\* write.
C17_OneEncoderPerModel ==
    /\ ~mapFault
    /\ \A g, h \in Callers :
          (g # h /\ callers[g].pc = "storing") => callers[h].pc \notin {"lookup", "storing"}
    /\ \A model \in EncoderModels :
          Cardinality({i \in 1..Len(encodersBuilt) : encodersBuilt[i] = model}) <= 1
    /\ \A g, h \in Callers :
          (callers[g].pc = "done" /\ callers[h].pc = "done"
              /\ callers[g].model = callers[h].model)
          => callers[g].tokenEncoder = callers[h].tokenEncoder

\* C18: a streaming execution whose client stays connected eventually
\* returns from relayTextHelper: the consumer is never left waiting on
\* dataChan and stopChan by a producer that has ended.
C18_StreamReturns == isStream ~> (pc = "done" \/ clientGone)

\* An OpenAI stream, seen by a client that stays connected, in which no
\* line carries a payload that is not JSON.
OpenAIStreamParseable ==
    /\ isStream
    /\ apiType = "OpenAI"
    /\ ~clientGone
    /\ \A i \in 1..Len(upstream) : \A j \in 1..Len(upstream[i]) : upstream[i][j] # Garbled

\* A line as the client is to receive it: cut after data: [DONE], and
\* without one trailing \r.
ForwardedLine(line) ==
    LET cut == IF Len(line) >= 2 /\ line[1] = DataPrefix /\ line[2] = DoneMark
               THEN <<DataPrefix, DoneMark>> ELSE line
    IN  IF cut # <<>> /\ cut[Len(cut)] = CR THEN SubSeq(cut, 1, Len(cut) - 1) ELSE cut

\* The lines of at least 6 characters, forwarded in order.
RECURSIVE ForwardedLines(_)
ForwardedLines(lines) ==
    IF lines = <<>> THEN <<>>
    ELSE (IF StrLen(Head(lines)) < 6 THEN <<>> ELSE <<ForwardedLine(Head(lines))>>)
         \o ForwardedLines(Tail(lines))

\* The lines the producer has handed over: all it has scanned, but the last
\* while it waits at its send.
HandedOver ==
    IF prodPc = "send" THEN SubSeq(upstream, 1, Len(upstream) - 1) ELSE upstream

\* C19: in the OpenAI stream path with the client connected and every frame
\* parseable, the frames written downstream are the upstream lines in
\* upstream order, none lost, duplicated or reordered, lines of fewer than 6
\* characters left out, one trailing \r removed, and a data: [DONE] line cut
\* to its first 12 characters; the consumer leaves only after the last line.
C19_OpenAIStreamFifo ==
    OpenAIStreamParseable
        => /\ downstream = ForwardedLines(HandedOver)
           /\ ConsumerLeft => upstreamEnded /\ downstream = ForwardedLines(upstream)

C19_Witness ==
    /\ OpenAIStreamParseable
    /\ pc = "done"
    /\ upstream = << <<>>, <<DataPrefix, Json(<<"b">>), CR>>, <<DataPrefix, DoneMark, CR>> >>
    /\ downstream = << <<DataPrefix, Json(<<"b">>)>>, <<DataPrefix, DoneMark>> >>

\* The content carried by the frames written to the client, in order.
RECURSIVE DeliveredContent(_)
DeliveredContent(frames) ==
    IF frames = <<>> THEN <<>>
    ELSE (IF Len(Head(frames)) >= 2 /\ Head(frames)[2].t = "json"
          THEN Head(frames)[2].c ELSE <<>>)
         \o DeliveredContent(Tail(frames))

\* C20: once the settlement of a stream has read the accumulator, the
\* producer writes to it no more, and what was read holds the content of
\* every frame written downstream, in order (and nothing else when the
\* client stayed connected).
C20_AccumulatorSettled ==
    (isStream /\ settlement.ran)
        => /\ countTokenText(streamResponseText) = settlement.completionTokens
           /\ HasPrefix(streamResponseText, DeliveredContent(downstream))
           /\ ~clientGone => streamResponseText = DeliveredContent(downstream)

\* A non-free request with consumeQuota true has returned from a buffered
\* path.
BufferedSettled ==
    /\ pc = "done"
    /\ deferRegistered
    /\ ~isStream
    /\ ctx.consumeQuota
    /\ ~OnFreeChannel

\* Cost 0, the pre-consumed amount given back, no usage counter touched.
SettledAsFailed ==
    /\ settlement.quota = 0
    /\ CallsOf("PostConsumeTokenQuota")
           = <<Call("PostConsumeTokenQuota", 0 - preConsumedQuota)>>
    /\ PreDebit + CallsOf("PostConsumeTokenQuota")[1].arg = 0
    /\ ~Called("UpdateUserUsedQuotaAndRequestCount")
    /\ ~Called("UpdateChannelUsedQuota")

=============================================================================
